---- MODULE Spec2Model ----
(***************************************************************************)
(* Model of main.py: the restaurant schema, the seed initializer           *)
(* init_sample_data and the route handlers health, get_restaurants and     *)
(* get_menu, all working on one shared relational store.                   *)
(*                                                                         *)
(* Granularity: one action per session open and per datastore statement    *)
(* that other sessions can observe or be observed by (the guard query,     *)
(* each commit, each query of a handler), and one for the finally block,   *)
(* so that application instances and requests interleave the way separate  *)
(* sessions on one database do.  A refresh reads back rows the same        *)
(* session has just committed and belongs to the commit's action.  Every   *)
(* statement sees the rows committed so far.  Any statement may raise a    *)
(* datastore error.                                                        *)
(*                                                                         *)
(* Prices are kept in cents (5.99 is 599).  A generated id is one above    *)
(* the largest id of the table.  A response body is the bag of its         *)
(* entries: the queries carry no ORDER BY, so the order of the entries is  *)
(* the datastore's choice.                                                 *)
(***************************************************************************)
EXTENDS Integers, Sequences, FiniteSets, Bags, TLC

\* ---------------------------------------------------------------- bounds
NumProcs == 2
NumReqs == 1
MaxInputId == 1

Procs == 1..NumProcs
Reqs == 1..NumReqs
InputIds == 0..MaxInputId

NoSession == 0

\* store       the committed rows of each table
\* sessions    the open sessions
\* pc, db, rids, cids    per instance: position in init_sample_data, its
\*             session, the ids of r1, r2 and of cat1..cat4
\* rpc, rarg, rdb, rstatus, rbody, rcats    per request: position in the
\*             handler, restaurant_id, its session, the response status
\*             and body, the categories still to be visited
\* overlapped  history: some seed run started while another was in progress
\* dirty       history, per request: a commit fell between the queries of
\*             the get_menu call in progress
VARIABLES store, sessions, pc, db, rids, cids, overlapped,
          rpc, rarg, rdb, rstatus, rbody, rcats, dirty

vars == <<store, sessions, pc, db, rids, cids, overlapped,
          rpc, rarg, rdb, rstatus, rbody, rcats, dirty>>
procVars == <<pc, db, rids, cids, overlapped>>
reqVars == <<rpc, rarg, rdb, rstatus, rbody, rcats>>

\* ------------------------------------------------------- schema and rows
Tables == {"restaurants", "menu_categories", "menu_items", "customers",
           "orders", "order_items"}

Restaurant(name, address, phone) ==
    [name |-> name, address |-> address, phone |-> phone]

MenuCategory(name, restaurant_id) ==
    [restaurant_id |-> restaurant_id, name |-> name]

MenuItem(name, description, price, category_id) ==
    [category_id |-> category_id, name |-> name,
     description |-> description, price |-> price]

Customer(name, email, phone) ==
    [name |-> name, email |-> email, phone |-> phone]

\* Base.metadata.create_all on a fresh database: six empty tables.
EmptyStore == [t \in Tables |-> {}]

Ids(table) == {row.id : row \in table}

MaxOf(S) == CHOOSE x \in S : \A y \in S : y <= x

\* The autoincrement primary key of the next inserted row.
NextId(table) == IF table = {} THEN 1 ELSE MaxOf(Ids(table)) + 1

\* The ids the rows of one add_all get, in the order they were added; the
\* refresh after the commit reads them back.
NewIds(table, rows) == [i \in 1..Len(rows) |-> NextId(table) + i - 1]

\* db.add_all(rows); db.commit(): the rows join the table with fresh ids.
InsertAll(table, rows) ==
    table \cup {[id |-> NewIds(table, rows)[i]] @@ rows[i] : i \in 1..Len(rows)}

\* Mutant of Commit: the tables are created anew before the rows go in.
CommitRecreating(st, t, rows) == [EmptyStore EXCEPT ![t] = InsertAll(st[t], rows)]

\* A commit of rows added to table t: only that table changes.
Commit(st, t, rows) == [st EXCEPT ![t] = InsertAll(@, rows)]

\* ------------------------------------------------------------ seed data
SampleRestaurants ==
    << Restaurant("Pizza Place", "123 Main St", "1234567890"),
       Restaurant("Burger Corner", "456 Side St", "9876543210") >>

\* Mutant of SampleCategories: the second restaurant's categories point one
\* id too far.
SampleCategoriesShifted(r) ==
    << MenuCategory("Pizza", r[1]), MenuCategory("Drinks", r[1]),
       MenuCategory("Burgers", r[2] + 1), MenuCategory("Drinks", r[2] + 1) >>

SampleCategories(r) ==
    << MenuCategory("Pizza", r[1]), MenuCategory("Drinks", r[1]),
       MenuCategory("Burgers", r[2]), MenuCategory("Drinks", r[2]) >>

SampleItems(c) ==
    << MenuItem("Margherita", "Cheese pizza", 599, c[1]),
       MenuItem("Coke", "Soft drink", 150, c[2]),
       MenuItem("Veggie Burger", "Tasty veggie burger", 450, c[3]),
       MenuItem("Pepsi", "Soft drink", 150, c[4]) >>

\* Mutant of SampleCustomer: no customer is added.
NoSampleCustomer == << >>

SampleCustomer ==
    << Customer("Sindhur", "sindhur@example.com", "1122334455") >>

\* Mutants of NoRestaurantExists: no guard at all, and guards that test
\* another table.
AlwaysSeed(st) == TRUE

NoCustomerExists(st) == st["customers"] = {}

NoMenuItemExists(st) == st["menu_items"] = {}

\* if not db.query(Restaurant).first()
NoRestaurantExists(st) == st["restaurants"] = {}

\* Customer.email is unique: the insert is refused when an email is taken.
EmailTaken(table, rows) ==
    \E i \in 1..Len(rows) : \E c \in table : c.email = rows[i].email

\* ------------------------------------------------------------- sessions
\* SessionLocal(): a new session object, named after the call that made
\* it: the seed run of instance p, or the request in slot r.
SeedCall(p) == p

RequestCall(r) == NumProcs + r

SessionLocal(call) == call

\* Mutant of Close: the session stays open.
CloseNothing(open, s) == open

\* db.close()
Close(open, s) == open \ {s}

SeedInserting == {"restaurants", "categories", "items", "customer"}

SeedActive == {"check"} \cup SeedInserting

ReqActive == {"r_query", "m_query", "m_cats", "m_items", "close"}

Init ==
    /\ store = EmptyStore
    /\ sessions = {}
    /\ pc = [p \in Procs |-> "idle"]
    /\ db = [p \in Procs |-> NoSession]
    /\ rids = [p \in Procs |-> <<>>]
    /\ cids = [p \in Procs |-> <<>>]
    /\ overlapped = FALSE
    /\ rpc = [r \in Reqs |-> "idle"]
    /\ rarg = [r \in Reqs |-> 0]
    /\ rdb = [r \in Reqs |-> NoSession]
    /\ rstatus = [r \in Reqs |-> 0]
    /\ rbody = [r \in Reqs |-> EmptyBag]
    /\ rcats = [r \in Reqs |-> {}]
    /\ dirty = [r \in Reqs |-> FALSE]

\* A commit changed the store: a get_menu call that has read from it and
\* has more to read no longer works on one store state.
Touched == [r \in Reqs |-> dirty[r] \/ rpc[r] \in {"m_cats", "m_items"}]

\* ----------------------------------------------------- init_sample_data
\* An instance starts and calls init_sample_data, once: db = SessionLocal().
SeedOpen(p) ==
    /\ pc[p] = "idle"
    /\ db' = [db EXCEPT ![p] = SessionLocal(SeedCall(p))]
    /\ sessions' = sessions \cup {SessionLocal(SeedCall(p))}
    /\ pc' = [pc EXCEPT ![p] = "check"]
    /\ overlapped' = (overlapped \/ \E q \in Procs \ {p} : pc[q] \in SeedActive)
    /\ UNCHANGED <<store, rids, cids, reqVars, dirty>>

\* finally: db.close(), leaving init_sample_data in state "to".
SeedLeave(p, to) ==
    /\ sessions' = Close(sessions, db[p])
    /\ db' = [db EXCEPT ![p] = NoSession]
    /\ rids' = [rids EXCEPT ![p] = <<>>]
    /\ cids' = [cids EXCEPT ![p] = <<>>]
    /\ pc' = [pc EXCEPT ![p] = to]

\* A statement of the seed run raises: the finally block closes the
\* session and the instance fails to start.
SeedRaise(p) ==
    /\ pc[p] \in SeedActive
    /\ SeedLeave(p, "failed")
    /\ UNCHANGED <<store, overlapped, reqVars, dirty>>

\* if not db.query(Restaurant).first(): when a restaurant exists, nothing
\* is inserted and the instance goes on to serve.
SeedCheck(p) ==
    /\ pc[p] = "check"
    /\ IF NoRestaurantExists(store)
       THEN /\ pc' = [pc EXCEPT ![p] = "restaurants"]
            /\ UNCHANGED <<sessions, db, rids, cids>>
       ELSE SeedLeave(p, "serving")
    /\ UNCHANGED <<store, overlapped, reqVars, dirty>>

\* db.add_all([r1, r2]); db.commit(); db.refresh(r1); db.refresh(r2)
SeedRestaurants(p) ==
    /\ pc[p] = "restaurants"
    /\ store' = Commit(store, "restaurants", SampleRestaurants)
    /\ rids' = [rids EXCEPT ![p] = NewIds(store["restaurants"], SampleRestaurants)]
    /\ pc' = [pc EXCEPT ![p] = "categories"]
    /\ dirty' = Touched
    /\ UNCHANGED <<sessions, db, cids, overlapped, reqVars>>

\* db.add_all([cat1, cat2, cat3, cat4]); db.commit(); db.refresh(cat1) ...
SeedCategories(p) ==
    /\ pc[p] = "categories"
    /\ store' = Commit(store, "menu_categories", SampleCategories(rids[p]))
    /\ cids' = [cids EXCEPT ![p] =
                     NewIds(store["menu_categories"], SampleCategories(rids[p]))]
    /\ pc' = [pc EXCEPT ![p] = "items"]
    /\ dirty' = Touched
    /\ UNCHANGED <<sessions, db, rids, overlapped, reqVars>>

\* db.add_all(items); db.commit()
SeedItems(p) ==
    /\ pc[p] = "items"
    /\ store' = Commit(store, "menu_items", SampleItems(cids[p]))
    /\ pc' = [pc EXCEPT ![p] = "customer"]
    /\ dirty' = Touched
    /\ UNCHANGED <<sessions, db, rids, cids, overlapped, reqVars>>

\* db.add(customer); db.commit(); finally: db.close().  The commit is
\* refused, and the run raises, when the email is already stored.
SeedCustomer(p) ==
    /\ pc[p] = "customer"
    /\ IF EmailTaken(store["customers"], SampleCustomer)
       THEN /\ SeedLeave(p, "failed")
            /\ UNCHANGED <<store, dirty>>
       ELSE /\ store' = Commit(store, "customers", SampleCustomer)
            /\ dirty' = Touched
            /\ SeedLeave(p, "serving")
    /\ UNCHANGED <<overlapped, reqVars>>

\* The statements of a seed run after its session is open.
SeedStep(p) ==
    \/ SeedRaise(p)
    \/ SeedCheck(p)
    \/ SeedRestaurants(p)
    \/ SeedCategories(p)
    \/ SeedItems(p)
    \/ SeedCustomer(p)

\* Instances deployed one at a time: an instance starts when no seed run
\* of another instance is in progress.
SeedOpenInTurn(p) ==
    /\ \A q \in Procs : pc[q] \notin SeedActive
    /\ SeedOpen(p)

\* --------------------------------------------------------- route handlers
\* Mutant of RestaurantEntry: address and phone change places.
RestaurantEntrySwapped(r) ==
    [id |-> r.id, name |-> r.name, address |-> r.phone, phone |-> r.address]

\* {"id": r.id, "name": r.name, "address": r.address, "phone": r.phone}
RestaurantEntry(r) ==
    [id |-> r.id, name |-> r.name, address |-> r.address, phone |-> r.phone]

\* [{...} for r in db.query(Restaurant).all()]: one entry per row.
RestaurantEntries(rows) ==
    [e \in {RestaurantEntry(r) : r \in rows} |->
        Cardinality({r \in rows : RestaurantEntry(r) = e})]

\* {"id": i.id, "name": i.name, "price": i.price}
ItemEntry(i) == [id |-> i.id, name |-> i.name, price |-> i.price]

\* [{...} for i in cat.menu_items]: one entry per row.
ItemEntries(rows) ==
    [e \in {ItemEntry(i) : i \in rows} |->
        Cardinality({i \in rows : ItemEntry(i) = e})]

\* {"category": cat.name, "items": items}
CategoryEntry(cat, items) == [category |-> cat.name, items |-> ItemEntries(items)]

\* db.query(Restaurant).filter(Restaurant.id == restaurant_id)
FindRestaurant(st, restaurant_id) ==
    {r \in st["restaurants"] : r.id = restaurant_id}

\* restaurant.menu_categories
MenuCategoriesOf(st, restaurant_id) ==
    {c \in st["menu_categories"] : c.restaurant_id = restaurant_id}

\* Mutant of MenuItemsOf: the items of every category.
AllMenuItems(st, category_id) == st["menu_items"]

\* cat.menu_items
MenuItemsOf(st, category_id) ==
    {i \in st["menu_items"] : i.category_id = category_id}

\* Mutant of NotFound: the check is missing.
NeverNotFound(found) == FALSE

\* if not restaurant: raise HTTPException(status_code=404, ...)
NotFound(found) == found = {}

\* {"message": "API is running"}
HealthBody == SetToBag({[message |-> "API is running"]})

\* GET /: no session, no query; the response is ready at once.
Health(r) ==
    /\ rpc[r] = "idle"
    /\ rpc' = [rpc EXCEPT ![r] = "return"]
    /\ rstatus' = [rstatus EXCEPT ![r] = 200]
    /\ rbody' = [rbody EXCEPT ![r] = HealthBody]
    /\ UNCHANGED <<store, sessions, procVars, rarg, rdb, rcats, dirty>>

\* GET /restaurants or GET /menu/{restaurant_id}: db = SessionLocal()
ReqOpen(r, first, restaurant_id) ==
    /\ rpc[r] = "idle"
    /\ rpc' = [rpc EXCEPT ![r] = first]
    /\ rarg' = [rarg EXCEPT ![r] = restaurant_id]
    /\ rdb' = [rdb EXCEPT ![r] = SessionLocal(RequestCall(r))]
    /\ sessions' = sessions \cup {SessionLocal(RequestCall(r))}
    /\ UNCHANGED <<store, procVars, rstatus, rbody, rcats, dirty>>

\* The try block is left with a response or an error; what remains is the
\* finally block.
ReqFinish(r, status, body) ==
    /\ rpc' = [rpc EXCEPT ![r] = "close"]
    /\ rstatus' = [rstatus EXCEPT ![r] = status]
    /\ rbody' = [rbody EXCEPT ![r] = body]
    /\ rarg' = [rarg EXCEPT ![r] = 0]
    /\ rcats' = [rcats EXCEPT ![r] = {}]
    /\ dirty' = [dirty EXCEPT ![r] = FALSE]

\* A query of the handler raises: the response is an unhandled error.
ReqRaise(r) ==
    /\ rpc[r] \in ReqActive \ {"close"}
    /\ ReqFinish(r, 500, EmptyBag)
    /\ UNCHANGED <<store, sessions, procVars, rdb>>

\* data = [{...} for r in db.query(Restaurant).all()]; return data
GetRestaurantsQuery(r) ==
    /\ rpc[r] = "r_query"
    /\ ReqFinish(r, 200, RestaurantEntries(store["restaurants"]))
    /\ UNCHANGED <<store, sessions, procVars, rdb>>

\* restaurant = db.query(Restaurant).filter(...).first()
\* if not restaurant: raise HTTPException(404)
GetMenuQuery(r) ==
    /\ rpc[r] = "m_query"
    /\ IF NotFound(FindRestaurant(store, rarg[r]))
       THEN ReqFinish(r, 404, EmptyBag)
       ELSE /\ rpc' = [rpc EXCEPT ![r] = "m_cats"]
            /\ UNCHANGED <<rstatus, rbody, rarg, rcats, dirty>>
    /\ UNCHANGED <<store, sessions, procVars, rdb>>

\* for cat in restaurant.menu_categories: the categories are loaded; with
\* none of them the loop ends and the empty menu is returned.
GetMenuCategories(r) ==
    /\ rpc[r] = "m_cats"
    /\ IF MenuCategoriesOf(store, rarg[r]) = {}
       THEN ReqFinish(r, 200, rbody[r])
       ELSE /\ rcats' = [rcats EXCEPT ![r] = MenuCategoriesOf(store, rarg[r])]
            /\ rpc' = [rpc EXCEPT ![r] = "m_items"]
            /\ UNCHANGED <<rstatus, rbody, rarg, dirty>>
    /\ UNCHANGED <<store, sessions, procVars, rdb>>

\* items = [{...} for i in cat.menu_items]; menu.append({...}); after the
\* last category: return menu
GetMenuItems(r) ==
    /\ rpc[r] = "m_items"
    /\ \E cat \in rcats[r] :
          IF rcats[r] = {cat}
          THEN ReqFinish(r, 200, rbody[r] (+)
                   SetToBag({CategoryEntry(cat, MenuItemsOf(store, cat.id))}))
          ELSE /\ rbody' = [rbody EXCEPT ![r] = @ (+)
                   SetToBag({CategoryEntry(cat, MenuItemsOf(store, cat.id))})]
               /\ rcats' = [rcats EXCEPT ![r] = @ \ {cat}]
               /\ UNCHANGED <<rpc, rstatus, rarg, dirty>>
    /\ UNCHANGED <<store, sessions, procVars, rdb>>

\* finally: db.close(); the response (or the error) leaves the handler and
\* the slot takes the next request.
ReqClose(r) ==
    /\ rpc[r] = "close"
    /\ sessions' = Close(sessions, rdb[r])
    /\ rdb' = [rdb EXCEPT ![r] = NoSession]
    /\ rpc' = [rpc EXCEPT ![r] = "idle"]
    /\ rstatus' = [rstatus EXCEPT ![r] = 0]
    /\ rbody' = [rbody EXCEPT ![r] = EmptyBag]
    /\ UNCHANGED <<store, procVars, rarg, rcats, dirty>>

\* The health response leaves the handler.
HealthReturn(r) ==
    /\ rpc[r] = "return"
    /\ rpc' = [rpc EXCEPT ![r] = "idle"]
    /\ rstatus' = [rstatus EXCEPT ![r] = 0]
    /\ rbody' = [rbody EXCEPT ![r] = EmptyBag]
    /\ UNCHANGED <<store, sessions, procVars, rarg, rdb, rcats, dirty>>

Request(r) ==
    \/ Health(r)
    \/ HealthReturn(r)
    \/ ReqOpen(r, "r_query", 0)
    \/ \E restaurant_id \in InputIds : ReqOpen(r, "m_query", restaurant_id)
    \/ ReqRaise(r)
    \/ GetRestaurantsQuery(r)
    \/ GetMenuQuery(r)
    \/ GetMenuCategories(r)
    \/ GetMenuItems(r)
    \/ ReqClose(r)

\* Cold start: any number of the instances start at the same time against
\* the fresh store; no request is served yet.
ColdStartNext == \E p \in Procs : SeedOpen(p) \/ SeedStep(p)

ColdStartSpec == Init /\ [][ColdStartNext]_vars

\* The service: instances are deployed one at a time, and requests arrive
\* at any moment, also while an instance is seeding.
Next ==
    \/ \E p \in Procs : SeedOpenInTurn(p) \/ SeedStep(p)
    \/ \E r \in Reqs : Request(r)

Spec == Init /\ [][Next]_vars

\* ================================================================ claims
Count(t) == Cardinality(store[t])

\* The rows one seed run inserts into each table.
SampleCount ==
    [t \in Tables |->
        CASE t = "restaurants" -> 2
          [] t = "menu_categories" -> 4
          [] t = "menu_items" -> 4
          [] t = "customers" -> 1
          [] OTHER -> 0]

\* Request r leaves the try block in this step.
Finishes(r) == rpc[r] \in ReqActive \ {"close"} /\ rpc'[r] = "close"

PizzaPlaceMenu ==
    SetToBag({
        [category |-> "Pizza",
         items |-> SetToBag({[id |-> 1, name |-> "Margherita", price |-> 599]})],
        [category |-> "Drinks",
         items |-> SetToBag({[id |-> 2, name |-> "Coke", price |-> 150]})] })

SeededRestaurantList ==
    SetToBag({
        [id |-> 1, name |-> "Pizza Place", address |-> "123 Main St",
         phone |-> "1234567890"],
        [id |-> 2, name |-> "Burger Corner", address |-> "456 Side St",
         phone |-> "9876543210"] })

\* ---------------------------------------------------------------- C1
\* C1: the restaurant query of get_menu ends the call with 404, an empty
\* body and an unchanged store exactly when no Restaurant row has the
\* requested id; with such a row the call goes on to load the menu, and 404
\* arises at no other statement.
C1_NotFoundIffNoRow ==
    [][\A r \in Reqs :
        /\ (rpc[r] = "m_query" /\ rpc'[r] # "m_query" /\ rstatus'[r] # 500) =>
              IF \E row \in store["restaurants"] : row.id = rarg[r]
              THEN rpc'[r] = "m_cats" /\ rstatus'[r] # 404
              ELSE /\ rpc'[r] = "close"
                   /\ rstatus'[r] = 404
                   /\ rbody'[r] = EmptyBag
                   /\ store' = store
        /\ (rstatus'[r] = 404 /\ rstatus[r] # 404) => rpc[r] = "m_query"
        /\ (rstatus[r] = 404 /\ rpc'[r] # rpc[r]) => store' = store
      ]_vars

\* get_menu has answered 404 although restaurants are stored.
C1_Witness ==
    \E r \in Reqs :
        /\ rpc[r] = "close"
        /\ rstatus[r] = 404
        /\ store["restaurants"] # {}

\* ---------------------------------------------------------------- C2
\* The item entries of a category, read off the store.
C2_Items(category_id) ==
    LET rows == {i \in store["menu_items"] : i.category_id = category_id}
        entries == {[id |-> i.id, name |-> i.name, price |-> i.price] : i \in rows}
    IN  [e \in entries |->
            Cardinality({i \in rows :
                [id |-> i.id, name |-> i.name, price |-> i.price] = e})]

\* The menu of a restaurant, read off the store: one entry per category
\* of the restaurant.
C2_Menu(restaurant_id) ==
    LET rows == {c \in store["menu_categories"] : c.restaurant_id = restaurant_id}
        entries == {[category |-> c.name, items |-> C2_Items(c.id)] : c \in rows}
    IN  [e \in entries |->
            Cardinality({c \in rows :
                [category |-> c.name, items |-> C2_Items(c.id)] = e})]

\* C2: when get_menu returns a menu for an existing restaurant and the
\* store did not change between its reads, the menu has one entry per
\* MenuCategory of that restaurant and no other, each with exactly the
\* MenuItem rows of that category (id, name, price as stored); on the
\* store of one complete seed run the menu of restaurant 1 is Pizza ->
\* Margherita 599, Drinks -> Coke 150.
C2_MenuMatchesStore ==
    [][\A r \in Reqs :
        (Finishes(r) /\ rpc[r] \in {"m_cats", "m_items"} /\ rstatus'[r] = 200
            /\ ~dirty[r]) =>
          /\ \E row \in store["restaurants"] : row.id = rarg[r]
          /\ rbody'[r] = C2_Menu(rarg[r])
          /\ (rarg[r] = 1 /\ \A t \in Tables : Count(t) = SampleCount[t]) =>
                rbody'[r] = PizzaPlaceMenu
      ]_vars

\* get_menu has returned the menu of "Pizza Place".
C2_Witness ==
    \E r \in Reqs :
        /\ rpc[r] = "close"
        /\ rstatus[r] = 200
        /\ rbody[r] = PizzaPlaceMenu

\* ---------------------------------------------------------------- C3
\* C3: a seed run goes on to insert exactly when its guard query finds the
\* Restaurant table empty, and otherwise leaves the store as it is; rows
\* are inserted by such runs only; and while seed runs do not overlap, no
\* table ever holds more rows than one run inserts, so that after a
\* complete run every later run leaves the row counts where they are.
C3_SeedsOnlyWhenEmpty ==
    [][/\ \A p \in Procs :
            (pc[p] = "check" /\ pc'[p] \notin {"check", "failed"}) =>
               /\ pc'[p] = "restaurants" <=> store["restaurants"] = {}
               /\ pc'[p] = "serving" <=> store["restaurants"] # {}
               /\ store' = store
       /\ store' # store =>
            \E p \in Procs : pc[p] \in SeedInserting /\ pc'[p] # pc[p]
       /\ ~overlapped' =>
            /\ \A t \in Tables : Cardinality(store'[t]) <= SampleCount[t]
            /\ store'["customers"] # {} =>
                  \A t \in Tables : Cardinality(store'[t]) = SampleCount[t]
      ]_vars

\* Runs one after the other: the first inserted, the second did not.
C3_Witness ==
    /\ ~overlapped
    /\ \A p \in Procs : pc[p] = "serving"
    /\ \A t \in Tables : Count(t) = SampleCount[t]

\* ---------------------------------------------------------------- C4
\* C4: in every state of the store every MenuCategory.restaurant_id is the
\* id of a stored Restaurant and every MenuItem.category_id is the id of a
\* stored MenuCategory.
C4_ForeignKeysResolve ==
    /\ \A c \in store["menu_categories"] :
          \E row \in store["restaurants"] : row.id = c.restaurant_id
    /\ \A i \in store["menu_items"] :
          \E c \in store["menu_categories"] : c.id = i.category_id

\* Between two commits of a seed run: categories stored, items not yet.
C4_Witness ==
    /\ \E p \in Procs : pc[p] = "items"
    /\ store["menu_categories"] # {}
    /\ store["menu_items"] = {}

\* ---------------------------------------------------------------- C5
\* A seed run completes in this step: its last commit went through.
SeedCompletes(p) == pc[p] = "customer" /\ pc'[p] = "serving"

\* C5 as stated: after a seed run that completes, each of the six tables
\* holds at least one row.
C5_SpansEveryEntity ==
    [][\A p \in Procs :
          SeedCompletes(p) => \A t \in Tables : store'[t] # {}]_vars

\* C5 amended: after a seed run that completes, Restaurant, MenuCategory,
\* MenuItem and Customer each hold at least one row, while Order and
\* OrderItem hold none.
C5_SpansFourEntities ==
    [][\A p \in Procs :
          SeedCompletes(p) =>
             /\ \A t \in {"restaurants", "menu_categories", "menu_items",
                          "customers"} : store'[t] # {}
             /\ store'["orders"] = {}
             /\ store'["order_items"] = {}]_vars

\* A seed run has completed.
C5_Witness ==
    /\ \E p \in Procs : pc[p] = "serving"
    /\ store["customers"] # {}
    /\ store["orders"] = {}

\* ---------------------------------------------------------------- C6
\* C6: the Restaurant table holds more rows than one seed run inserts only
\* if two seed runs overlapped; the witness is the state with the sample
\* restaurants stored twice.
C6_DuplicatesOnlyByOverlap ==
    Count("restaurants") > SampleCount["restaurants"] => overlapped

\* Two overlapping seed runs have both inserted: four Restaurant rows.
C6_Witness ==
    /\ overlapped
    /\ Count("restaurants") = 4

\* ---------------------------------------------------------------- C7
SeedHolders == {p \in Procs : pc[p] \in SeedActive}

ReqHolders == {r \in Reqs : rpc[r] \in ReqActive}

C9_ListsEveryRestaurant ==
    [][\A r \in Reqs :
        (rpc[r] = "r_query" /\ rpc'[r] # "r_query" /\ rstatus'[r] # 500) =>
          /\ rpc'[r] = "close"
          /\ rstatus'[r] = 200
          /\ BagCardinality(rbody'[r]) = Count("restaurants")
          /\ \A row \in store["restaurants"] :
                CopiesIn([id |-> row.id, name |-> row.name,
                          address |-> row.address, phone |-> row.phone],
                         rbody'[r]) = 1
          /\ store["restaurants"] = {} => rbody'[r] = EmptyBag
          /\ store["customers"] # {} => rbody'[r] = SeededRestaurantList
      ]_vars

\* get_restaurants has returned the two seeded restaurants.
C9_Witness ==
    \E r \in Reqs :
        /\ rpc[r] = "close"
        /\ rstatus[r] = 200
        /\ rbody[r] = SeededRestaurantList

\* --------------------------------------------------------------- C10
\* Restaurants are stored and no seed run is past its guard.
Settled ==
    /\ store["restaurants"] # {}
    /\ \A p \in Procs : pc[p] \notin SeedInserting

\* C10: once restaurants are stored and no seed run is past its guard, no
\* later step changes the store and no later seed run gets past its guard:
\* tables a stopped run left empty stay empty.
C10_PartialSeedStays ==
    [][Settled => (Settled' /\ store' = store)]_vars

\* A seed run stopped before the menu items, a later instance started
\* without inserting, and get_menu answers 200 with the categories of
\* "Pizza Place" and no item in either.
C10_Witness ==
    /\ \E p \in Procs : pc[p] = "failed"
    /\ \E p \in Procs : pc[p] = "serving"
    /\ store["menu_categories"] # {}
    /\ store["menu_items"] = {}
    /\ \E r \in Reqs :
          /\ rpc[r] = "close"
          /\ rstatus[r] = 200
          /\ rbody[r] = SetToBag({[category |-> "Pizza", items |-> EmptyBag],
                                  [category |-> "Drinks", items |-> EmptyBag]})
====
